---- MODULE Spec2Model ----
(***************************************************************************)
(* Model of py2dmat.solver.leed.Solver (src/src/py2dmat/solver/leed.py):   *)
(* construction (keyword check, solver resolution, reference files), the  *)
(* evaluation cycle prepare / run / get_results over the work directories  *)
(* Log{step:08d}_{set:08d}, and the text conversions the cycle relies on   *)
(* (directory name formatting, F7.4 rendering, placeholder replacement,    *)
(* reading the R-factor out of search.s).                                  *)
(*                                                                         *)
(* Text is a sequence of one-character strings, so formatting, replacing   *)
(* and parsing are computed character by character as Python does.         *)
(***************************************************************************)
EXTENDS Integers, Sequences, FiniteSets, TLC

VARIABLES
    info,       \* the py2dmat.Info handed to Solver(...), NoInfo once consumed
    solver,     \* the Solver object: NoSolver, or its attributes
    initError,  \* the exception Solver(...) raised, NoError if none
    refChecks,  \* how many times the reference files were checked (l.94-98)
    fs,         \* proc_dir: folder name -> NoDir or the directory's contents
    cwd,        \* the process working directory: Proc or a folder name
    last,       \* outcome of the last method call
    ref,        \* the reference directory: file name -> contents or Absent
    pathCreated, \* distutils' record of the directories copy_tree has made
    segs,       \* injection study: the pieces the template was built from
    variables,  \* injection study: the parameter vector
    contents,   \* injection study: tleed5.i in the working directory
    writes      \* injection study: number of _write_fit_file calls so far

vars == <<info, solver, initError, refChecks, fs, cwd, last, ref, pathCreated,
          segs, variables, contents, writes>>

lifeVars == <<info, solver, initError, refChecks, fs, cwd, last, ref, pathCreated>>
injectVars == <<segs, variables, contents, writes>>

----------------------------------------------------------------------------
(* Characters and small text helpers *)

DigitChars == <<"0", "1", "2", "3", "4", "5", "6", "7", "8", "9">>

IsDigit(c) == \E d \in 1..10 : DigitChars[d] = c

DigitValue(c) == (CHOOSE d \in 1..10 : DigitChars[d] = c) - 1

RECURSIVE Pow10(_)
Pow10(e) == IF e = 0 THEN 1 ELSE 10 * Pow10(e - 1)

\* str(n) for n >= 0
RECURSIVE NatStr(_)
NatStr(n) ==
    IF n < 10 THEN <<DigitChars[n + 1]>>
    ELSE NatStr(n \div 10) \o <<DigitChars[(n % 10) + 1]>>

RECURSIVE Repeat(_, _)
Repeat(c, k) == IF k <= 0 THEN <<>> ELSE <<c>> \o Repeat(c, k - 1)

\* s[i..] (1-based), empty when i is past the end
Drop(s, i) == SubSeq(s, i, Len(s))

\* s.startswith(p) at position i
MatchAt(s, p, i) ==
    /\ i + Len(p) - 1 <= Len(s)
    /\ \A k \in 1..Len(p) : s[i + k - 1] = p[k]

\* p in s
Contains(s, p) == \E i \in 1..(Len(s) + 1) : MatchAt(s, p, i)

RECURSIVE Flatten(_)
Flatten(ss) == IF ss = <<>> THEN <<>> ELSE Head(ss) \o Flatten(Tail(ss))

----------------------------------------------------------------------------
(* Formatting: "Log{:08d}_{:08d}", str(idx).zfill(4), "{:7.4f}" *)

DirWidth == 8       \* {:08d}
TokenWidth == 4     \* zfill(4)
FieldWidth == 7     \* {:7.4f}
FieldPrec == 4      \* {:7.4f}

\* "{:08d}".format(n): sign first, then zeros up to the minimum width; a
\* longer number is written in full.
FormatD(n) ==
    LET digits == NatStr(IF n < 0 THEN -n ELSE n)
        sign == IF n < 0 THEN <<"-">> ELSE <<>>
    IN sign \o Repeat("0", DirWidth - Len(sign) - Len(digits)) \o digits

\* str(s).zfill(w) for a digit string s
ZFill(s, w) == Repeat("0", w - Len(s)) \o s

LogChars == <<"L", "o", "g">>

\* "Log{:08d}_{:08d}".format(Log_number, iset)
FolderName(Log_number, iset) ==
    LogChars \o FormatD(Log_number) \o <<"_">> \o FormatD(iset)

\* A float parameter is the binary fraction k / Den, which float() holds
\* exactly; a value float() rejects (a non-numeric string) has float = FALSE.
Den == 2 ^ 5

Float(k) == [float |-> TRUE, k |-> k]
NotAFloat == [float |-> FALSE, k |-> 0]

\* "{:7.4f}".format(k / Den): correctly rounded (ties to even) to FieldPrec
\* decimals, right-justified in FieldWidth columns, never truncated.
FormatF(k) ==
    LET a == IF k < 0 THEN -k ELSE k
        n == a * Pow10(FieldPrec)
        q == n \div Den
        r == n % Den
        m == IF 2 * r > Den \/ (2 * r = Den /\ q % 2 = 1) THEN q + 1 ELSE q
        body == (IF k < 0 THEN <<"-">> ELSE <<>>)
                \o NatStr(m \div Pow10(FieldPrec)) \o <<".">>
                \o ZFill(NatStr(m % Pow10(FieldPrec)), FieldPrec)
    IN Repeat(" ", FieldWidth - Len(body)) \o body

----------------------------------------------------------------------------
(* Input._write_fit_file *)

OptChars == <<"o", "p", "t">>

\* "opt{}".format(str(idx).zfill(4))
Token(idx) == OptChars \o ZFill(NatStr(idx), TokenWidth)

RECURSIVE ReplaceFrom(_, _, _, _)
ReplaceFrom(s, old, new, i) ==
    IF i > Len(s) THEN <<>>
    ELSE IF MatchAt(s, old, i)
         THEN new \o ReplaceFrom(s, old, new, i + Len(old))
         ELSE <<s[i]>> \o ReplaceFrom(s, old, new, i + 1)

RECURSIVE ReplaceFirstFrom(_, _, _, _)
ReplaceFirstFrom(s, old, new, i) ==
    IF i > Len(s) THEN <<>>
    ELSE IF MatchAt(s, old, i)
         THEN new \o Drop(s, i + Len(old))
         ELSE <<s[i]>> \o ReplaceFirstFrom(s, old, new, i + 1)

\* s.replace(old, new, 1): only the first occurrence
ReplaceOnce(s, old, new) == ReplaceFirstFrom(s, old, new, 1)

\* s.replace(old, new): every non-overlapping occurrence, left to right
Replace(s, old, new) == ReplaceFrom(s, old, new, 1)

\* the loop of _write_fit_file from position idx (0-based) on; raised is
\* TRUE when float(variable) raises ValueError, which happens before the
\* file is opened for writing.
RECURSIVE FitLoop(_, _, _)
FitLoop(text, xs, idx) ==
    IF idx >= Len(xs) THEN [raised |-> FALSE, contents |-> text]
    ELSE IF ~xs[idx + 1].float THEN [raised |-> TRUE, contents |-> text]
    ELSE FitLoop(Replace(text, Token(idx), FormatF(xs[idx + 1].k)), xs, idx + 1)

\* _write_fit_file(variables) on a tleed5.i holding text: the outcome and
\* what the file holds afterwards.
WriteFitFile(text, xs) ==
    LET r == FitLoop(text, xs, 0)
    IN IF r.raised THEN [raised |-> TRUE, contents |-> text] ELSE r

----------------------------------------------------------------------------
(* Reading the R-factor: readlines, "R-FACTOR" in line, split("="), float *)

NL == "\n"
RFACTOR == <<"R", "-", "F", "A", "C", "T", "O", "R">>

\* fr.readlines(): every line keeps its newline; a last line may lack one
RECURSIVE LinesFrom(_, _, _)
LinesFrom(text, i, cur) ==
    IF i > Len(text) THEN (IF cur = <<>> THEN <<>> ELSE <<cur>>)
    ELSE IF text[i] = NL
         THEN <<cur \o <<NL>>>> \o LinesFrom(text, i + 1, <<>>)
         ELSE LinesFrom(text, i + 1, cur \o <<text[i]>>)

ReadLines(text) == LinesFrom(text, 1, <<>>)

\* line.split(sep) for a one-character separator
RECURSIVE SplitFrom(_, _, _, _)
SplitFrom(line, sep, i, cur) ==
    IF i > Len(line) THEN <<cur>>
    ELSE IF line[i] = sep
         THEN <<cur>> \o SplitFrom(line, sep, i + 1, <<>>)
         ELSE SplitFrom(line, sep, i + 1, cur \o <<line[i]>>)

Split(line, sep) == SplitFrom(line, sep, 1, <<>>)

IsSpace(c) == c = " " \/ c = NL

RECURSIVE LStrip(_)
LStrip(s) == IF s # <<>> /\ IsSpace(Head(s)) THEN LStrip(Tail(s)) ELSE s

RECURSIVE RStrip(_)
RStrip(s) ==
    IF s # <<>> /\ IsSpace(s[Len(s)]) THEN RStrip(SubSeq(s, 1, Len(s) - 1)) ELSE s

RECURSIVE DigitsValue(_)
DigitsValue(ds) ==
    IF ds = <<>> THEN 0
    ELSE 10 * DigitsValue(SubSeq(ds, 1, Len(ds) - 1)) + DigitValue(ds[Len(ds)])

\* A float read from text is mant / 10^exp with no trailing zero counted in
\* exp, so that equal numbers are equal values ("0.50" and "0.5").
RECURSIVE Num(_, _)
Num(mant, exp) ==
    IF mant = 0 THEN [kind |-> "num", mant |-> 0, exp |-> 0]
    ELSE IF exp > 0 /\ mant % 10 = 0 THEN Num(mant \div 10, exp - 1)
    ELSE [kind |-> "num", mant |-> mant, exp |-> exp]

Inf == [kind |-> "inf", mant |-> 0, exp |-> 0]      \* float('inf')
Unset == [kind |-> "unset", mant |-> 0, exp |-> 0]  \* rfactor not yet bound

\* float(s) for text made of blanks, a sign, digits and a point (exponents,
\* underscores, "inf" and "nan" need characters the texts here never hold):
\* [ok, value]; ok = FALSE stands for ValueError.
ParseFloat(s) ==
    LET t == RStrip(LStrip(s))
        signed == t # <<>> /\ (Head(t) = "-" \/ Head(t) = "+")
        u == IF signed THEN Tail(t) ELSE t
        dots == {i \in 1..Len(u) : u[i] = "."}
        dot == IF dots = {} THEN Len(u) + 1 ELSE CHOOSE i \in dots : TRUE
        ip == SubSeq(u, 1, dot - 1)
        fp == SubSeq(u, dot + 1, Len(u))
        wellFormed == /\ Cardinality(dots) <= 1
                      /\ \A i \in 1..Len(ip) : IsDigit(ip[i])
                      /\ \A i \in 1..Len(fp) : IsDigit(fp[i])
                      /\ Len(ip) + Len(fp) >= 1
        mag == DigitsValue(ip \o fp)
    IN IF ~wellFormed THEN [ok |-> FALSE, value |-> Unset]
       ELSE [ok |-> TRUE,
             value |-> Num(IF signed /\ Head(t) = "-" THEN -mag ELSE mag, Len(fp))]

\* variant of ScanLines without the break: the last line holding
\* "R-FACTOR" decides
RECURSIVE ScanLinesNoBreak(_, _, _)
ScanLinesNoBreak(lines, i, rf) ==
    IF i > Len(lines) THEN [error |-> "none", rfactor |-> rf]
    ELSE IF Contains(lines[i], RFACTOR)
         THEN LET parts == Split(lines[i], "=")
              IN IF Len(parts) < 2
                 THEN [error |-> "IndexError", rfactor |-> rf]
                 ELSE LET f == ParseFloat(parts[2])
                      IN IF f.ok THEN ScanLinesNoBreak(lines, i + 1, f.value)
                         ELSE [error |-> "ValueError", rfactor |-> rf]
         ELSE ScanLinesNoBreak(lines, i + 1, rf)

\* the for loop of get_results over lines[i..], entered with rfactor bound
\* to rf: [error, rfactor]; it stops at the first line holding "R-FACTOR".
RECURSIVE ScanLines(_, _, _)
ScanLines(lines, i, rf) ==
    IF i > Len(lines) THEN [error |-> "none", rfactor |-> rf]
    ELSE IF Contains(lines[i], RFACTOR)
         THEN LET parts == Split(lines[i], "=")
              IN IF Len(parts) < 2
                 THEN [error |-> "IndexError", rfactor |-> rf]
                 ELSE LET f == ParseFloat(parts[2])
                      IN IF f.ok THEN [error |-> "none", rfactor |-> f.value]
                         ELSE [error |-> "ValueError", rfactor |-> rf]
         ELSE ScanLines(lines, i + 1, rf)

----------------------------------------------------------------------------
(* Files, directories, configuration *)

Proc == <<>>                    \* proc_dir itself, where the framework runs
Absent == <<"absent">>          \* a file that does not exist

RequiredFiles == <<"exp.d", "rfac.d", "tleed4.i", "tleed5.i">>   \* files, l.93
RefNames == {RequiredFiles[i] : i \in 1..Len(RequiredFiles)}
FileNames == RefNames \cup {"search.s", "iv 1"}

\* the reference tleed5.i of the evaluation cycle
RefTemplate == Token(0) \o <<" ">> \o Token(1) \o <<NL>>

RefContents(f) == IF f = "tleed5.i" THEN RefTemplate ELSE <<"d">>

BaseDir == <<"root", "ref">>    \* info.solver["reference"]["path_to_base_dir"]
RootDir == <<"root">>           \* info.base["root_dir"]
PATH == << <<"opt">>, <<"usr">> >>   \* os.environ["PATH"].split(":")

\* the files os.access(..., X_OK) accepts
Executables ==
    { <<"root", "satl1.exe">>, <<"usr", "satl2.exe">>,
      <<"root", "bin", "satl1.exe">> }

Steps == {3, 123456789}
Sets == {7}
Folders == {FolderName(st, is) : st \in Steps, is \in Sets}

NoDir == [exists |-> FALSE, files |-> [f \in FileNames |-> Absent], subdirs |-> {}]
EmptyDir == [exists |-> TRUE, files |-> [f \in FileNames |-> Absent], subdirs |-> {}]

NoInfo ==
    [pending |-> FALSE, sections |-> {}, extra |-> "none",
     remove_work_dir |-> "absent", first |-> <<>>, second |-> <<>>]

NoSolver ==
    [built |-> FALSE, remove_work_dir |-> "False",
     path_to_first_solver |-> <<>>, path_to_second_solver |-> <<>>,
     work_dir |-> Proc]

NoError == [kind |-> "none", subject |-> "none", name |-> <<>>, dir |-> <<>>]

Idle ==
    [op |-> "none", status |-> "none", error |-> "none", value |-> Unset,
     started |-> <<>>, folder |-> Proc]

----------------------------------------------------------------------------
(* Solver.__init__ *)

\* info_s["post"].get("remove_work_dir", False)
GetRemoveWorkDir(i) ==
    IF i.remove_work_dir = "absent" THEN "False" ELSE i.remove_work_dir

\* the search of l.71-74: the first candidate directory holding an
\* executable p, else the last directory tried
RECURSIVE SearchPath(_, _, _)
SearchPath(cands, p, k) ==
    IF (cands[k] \o p) \in Executables \/ k = Len(cands)
    THEN cands[k] \o p
    ELSE SearchPath(cands, p, k + 1)

\* l.66-74 / l.79-87: p is the configured value (<<>>: the key is absent),
\* a sequence of path components
ResolveSolver(p, default) ==
    LET q == IF p = <<>> THEN <<default>> ELSE p
    IN IF Len(q) > 1 THEN RootDir \o q
       ELSE SearchPath(<<RootDir>> \o PATH, q, 1)

SolverName(p, default) == IF p = <<>> THEN <<default>> ELSE p

\* variant of FirstMissing: the loop reports the last missing file
LastMissing(r) ==
    LET missing == {i \in 1..Len(RequiredFiles) : r[RequiredFiles[i]] = Absent}
    IN IF missing = {} THEN 0
       ELSE CHOOSE i \in missing : \A j \in missing : i >= j

\* l.94-98: the first required file missing from the reference directory,
\* 0 if none
FirstMissing(r) ==
    LET missing == {i \in 1..Len(RequiredFiles) : r[RequiredFiles[i]] = Absent}
    IN IF missing = {} THEN 0
       ELSE CHOOSE i \in missing : \A j \in missing : i <= j

\* the exception __init__ raises on info i with reference directory r,
\* NoError when it completes
InitOutcome(i, r) ==
    LET p1 == ResolveSolver(i.first, "satl1.exe")
        p2 == ResolveSolver(i.second, "satl2.exe")
        m == FirstMissing(r)
    IN IF "post" \notin i.sections
       THEN [kind |-> "KeyError", subject |-> "section",
             name |-> <<"post">>, dir |-> <<>>]
       ELSE IF i.extra # "none"
       THEN [kind |-> "RuntimeError", subject |-> "keyword",
             name |-> <<"unknown">>, dir |-> <<i.extra>>]
       ELSE IF "config" \notin i.sections
       THEN [kind |-> "KeyError", subject |-> "section",
             name |-> <<"config">>, dir |-> <<>>]
       ELSE IF p1 \notin Executables
       THEN [kind |-> "InputError", subject |-> "solver",
             name |-> SolverName(i.first, "satl1.exe"), dir |-> <<>>]
       ELSE IF p2 \notin Executables
       THEN [kind |-> "InputError", subject |-> "solver",
             name |-> SolverName(i.second, "satl2.exe"), dir |-> <<>>]
       ELSE IF "reference" \notin i.sections
       THEN [kind |-> "KeyError", subject |-> "section",
             name |-> <<"reference">>, dir |-> <<>>]
       ELSE IF m # 0
       THEN [kind |-> "InputError", subject |-> "file",
             name |-> <<RequiredFiles[m]>>, dir |-> BaseDir]
       ELSE NoError

\* whether __init__ reaches the loop over the required files
ReachesFileCheck(i) ==
    /\ {"post", "config", "reference"} \subseteq i.sections
    /\ i.extra = "none"
    /\ ResolveSolver(i.first, "satl1.exe") \in Executables
    /\ ResolveSolver(i.second, "satl2.exe") \in Executables

Construct ==
    /\ info.pending
    /\ LET e == InitOutcome(info, ref)
       IN /\ initError' = e
          /\ refChecks' = IF ReachesFileCheck(info) THEN refChecks + 1 ELSE refChecks
          /\ solver' = IF e # NoError THEN NoSolver
                       ELSE [built |-> TRUE,
                             remove_work_dir |-> GetRemoveWorkDir(info),
                             path_to_first_solver |-> ResolveSolver(info.first, "satl1.exe"),
                             path_to_second_solver |-> ResolveSolver(info.second, "satl2.exe"),
                             work_dir |-> Proc]
    /\ info' = NoInfo
    /\ last' = [Idle EXCEPT !.op = "init",
                            !.status = IF InitOutcome(info, ref) = NoError
                                       THEN "returned" ELSE "raised",
                            !.error = InitOutcome(info, ref).kind]
    /\ UNCHANGED <<fs, cwd, ref, pathCreated, injectVars>>

----------------------------------------------------------------------------
(* Solver.prepare *)

\* the parameter vectors the framework sends in message.x
Xs == { <<Float(48), Float(-72)>>, <<Float(48), NotAFloat>> }

\* os.makedirs(folder_name, exist_ok=True), a path relative to the working
\* directory at: in proc_dir it makes the work directory itself, inside a
\* work directory it makes a directory nested in that one.
MakeDirs(f, at, folder) ==
    IF at = Proc
    THEN IF f[folder].exists THEN f ELSE [f EXCEPT ![folder] = EmptyDir]
    ELSE [f EXCEPT ![at].subdirs = @ \cup {folder}]

\* copy_tree(reference, work_dir): the directory is made if missing, every
\* file of the reference is written over the one of that name, and whatever
\* else the directory holds stays.
CopyTree(d, r) ==
    [exists |-> TRUE,
     files |-> [n \in FileNames |->
                  IF n \in RefNames /\ r[n] # Absent THEN r[n] ELSE d.files[n]],
     subdirs |-> d.subdirs]

Prepare(x, step, iset) ==
    /\ solver.built
    /\ LET folder == FolderName(step, iset)
           made == MakeDirs(fs, cwd, folder)
           copied == [made EXCEPT ![folder] = CopyTree(made[folder], ref)]
           fit == WriteFitFile(copied[folder].files["tleed5.i"], x)
           done(st, err) == [Idle EXCEPT !.op = "prepare", !.status = st,
                                         !.error = err, !.folder = folder]
       IN IF cwd # Proc /\ ~fs[cwd].exists
          THEN \* l.152: the working directory is gone, makedirs raises
               /\ last' = done("raised", "FileNotFoundError")
               /\ UNCHANGED <<solver, fs, cwd, pathCreated>>
          ELSE IF ~made[folder].exists /\ folder \in pathCreated
          THEN \* l.105: copy_tree made this directory before and does not
               \* make it again after its removal; copying into it fails
               /\ solver' = [solver EXCEPT !.work_dir = folder]
               /\ fs' = made
               /\ last' = done("raised", "DistutilsFileError")
               /\ UNCHANGED <<cwd, pathCreated>>
          ELSE /\ solver' = [solver EXCEPT !.work_dir = folder]
               /\ pathCreated' = IF made[folder].exists THEN pathCreated
                                 ELSE pathCreated \cup {folder}
               /\ IF copied[folder].files["tleed5.i"] = Absent
                  THEN \* l.169: open("tleed5.i", "r") raises inside work_dir
                       /\ fs' = copied
                       /\ cwd' = folder
                       /\ last' = done("raised", "FileNotFoundError")
                  ELSE IF fit.raised
                  THEN \* l.173: float(variable) raises, l.109 is not reached
                       /\ fs' = copied
                       /\ cwd' = folder
                       /\ last' = done("raised", "ValueError")
                  ELSE /\ fs' = [copied EXCEPT
                                   ![folder].files["tleed5.i"] = fit.contents]
                       /\ cwd' = cwd
                       /\ last' = done("returned", "none")
    /\ UNCHANGED <<info, initError, refChecks, ref, injectVars>>

----------------------------------------------------------------------------
(* Solver.run *)

\* lines a solver may write to search.s
LineNone == <<"x", NL>>
LineSpec == RFACTOR \o <<" ", "=", " ", "0", ".", "1", "2", "3", "4", NL>>
LineTwoEq == RFACTOR \o <<" ", "=", "0", ".", "5", "0", "=", "2", NL>>
LineLater == RFACTOR \o <<"=", "0", ".", "9", NL>>
LineNoEq == RFACTOR \o <<NL>>
LineNoNumber == RFACTOR \o <<"=", "x", NL>>
LineSigned == RFACTOR \o <<"=", "-", ".", "5", " ", NL>>
LineOtherEq == <<"=", "7", NL>>

\* what the second stage may leave in the work directory during the cycle:
\* search.s (NoWrite: it writes none) and whether it makes "iv 1"
NoWrite == <<"nowrite">>

SolverOutputs ==
    { [search |-> NoWrite, marker |-> FALSE],
      [search |-> LineSpec, marker |-> TRUE],
      [search |-> LineSpec, marker |-> FALSE] }

\* SolverBase._run_by_subprocess(command) in work_dir: subprocess.run with
\* check=True and cwd=work_dir.  exit is the status the process ends with.
RunBySubprocess(dirExists, exit) ==
    IF ~dirExists THEN "FileNotFoundError"
    ELSE IF exit # 0 THEN "CalledProcessError"
    ELSE "none"

\* the files the second stage leaves in the work directory d
Written(d, out) ==
    [d EXCEPT !.files = [n \in FileNames |->
        IF n = "search.s" /\ out.search # NoWrite THEN out.search
        ELSE IF n = "iv 1" /\ out.marker THEN <<>>
        ELSE d.files[n]]]

\* variant of Run: the second solver is started whatever the first returned
RunBoth(exit1, exit2, out) ==
    /\ solver.built
    /\ solver.work_dir # Proc
    /\ fs[solver.work_dir].exists
    /\ fs' = [fs EXCEPT ![solver.work_dir] = Written(@, out)]
    /\ last' = [Idle EXCEPT !.op = "run", !.status = "returned",
                  !.folder = solver.work_dir,
                  !.started = << <<solver.path_to_first_solver, exit1>>,
                                 <<solver.path_to_second_solver, exit2>> >>]
    /\ UNCHANGED <<info, initError, refChecks, ref, solver, cwd, pathCreated, injectVars>>

Run(exit1, exit2, out) ==
    /\ solver.built
    /\ solver.work_dir # Proc
    /\ LET wd == solver.work_dir
           r1 == RunBySubprocess(fs[wd].exists, exit1)
           r2 == RunBySubprocess(fs[wd].exists, exit2)
           done(st, err, started) ==
               [Idle EXCEPT !.op = "run", !.status = st, !.error = err,
                            !.folder = wd, !.started = started]
           first == <<solver.path_to_first_solver, exit1>>
           second == <<solver.path_to_second_solver, exit2>>
       IN IF r1 = "CalledProcessError"
          THEN \* l.116: caught, the second solver is not started
               /\ last' = done("returned", "none", <<first>>)
               /\ UNCHANGED fs
          ELSE IF r1 # "none"
          THEN \* not a CalledProcessError: it leaves run
               /\ last' = done("raised", r1, <<>>)
               /\ UNCHANGED fs
          ELSE /\ fs' = [fs EXCEPT ![wd] = Written(@, out)]
               /\ last' = done("returned", "none", <<first, second>>)
    /\ UNCHANGED <<info, initError, refChecks, ref, solver, cwd, pathCreated, injectVars>>

----------------------------------------------------------------------------
(* Solver.get_results *)

\* l.132: self.remove_work_dir == "true"
RemoveApplies(flag) == flag = "'true'"

\* l.121-129 on the work directory d: [error, rfactor]
ReadRFactor(d) ==
    LET rf0 == IF ~d.exists \/ d.files["iv 1"] = Absent THEN Inf ELSE Unset
    IN IF ~d.exists \/ d.files["search.s"] = Absent
       THEN [error |-> "FileNotFoundError", rfactor |-> rf0]
       ELSE ScanLines(ReadLines(d.files["search.s"]), 1, rf0)

GetResults ==
    /\ solver.built
    /\ solver.work_dir # Proc
    /\ LET wd == solver.work_dir
           r == ReadRFactor(fs[wd])
           done(st, err, v) == [Idle EXCEPT !.op = "get_results", !.status = st,
                                            !.error = err, !.value = v,
                                            !.folder = wd]
       IN IF r.error # "none"
          THEN /\ last' = done("raised", r.error, Unset)
               /\ UNCHANGED fs
          ELSE /\ fs' = IF RemoveApplies(solver.remove_work_dir)
                        THEN [fs EXCEPT ![wd] = NoDir] ELSE fs
               /\ last' = IF r.rfactor = Unset
                          THEN done("raised", "UnboundLocalError", Unset)
                          ELSE done("returned", "none", r.rfactor)
    /\ UNCHANGED <<info, initError, refChecks, ref, solver, cwd, pathCreated, injectVars>>

----------------------------------------------------------------------------
(* The evaluation cycle *)

FlagValues == {"absent", "False", "True", "'true'"}
ExtraKeys == {"none", "solver", "config", "reference", "post"}
FirstOptions == {<<>>, <<"bin", "satl1.exe">>, <<"nope.exe">>, <<"bin", "nope.exe">>}
SecondOptions == {<<>>, <<"nope.exe">>}

Infos ==
    {i \in [pending : {TRUE},
            sections : SUBSET {"config", "reference", "post"},
            extra : ExtraKeys,
            remove_work_dir : FlagValues,
            first : FirstOptions,
            second : SecondOptions] :
        /\ i.extra \in i.sections \cup {"none", "solver"}
        /\ ("post" \notin i.sections => i.remove_work_dir = "absent")
        /\ ("config" \notin i.sections => i.first = <<>> /\ i.second = <<>>)
        \* a solver given with a directory comes with the default flag
        /\ (Len(i.first) > 1 => i.remove_work_dir = "absent")}

\* reference directories: any of the required files may be missing
Refs ==
    {[f \in RefNames |-> IF f \in present THEN RefContents(f) ELSE Absent] :
        present \in SUBSET RefNames}

IdleInject == /\ segs = <<>>
              /\ variables = <<>>
              /\ contents = <<>>
              /\ writes = 0

Init ==
    /\ info \in Infos
    /\ ref \in Refs
    /\ solver = NoSolver
    /\ initError = NoError
    /\ refChecks = 0
    /\ fs = [n \in Folders |-> NoDir]
    /\ cwd = Proc
    /\ pathCreated = {}
    /\ last = Idle
    /\ IdleInject

Next ==
    \/ Construct
    \/ \E x \in Xs, st \in Steps, is \in Sets : Prepare(x, st, is)
    \/ \E e1 \in {0, 1}, e2 \in {0, 1}, out \in SolverOutputs :
          \* what a stage that is not started would do is immaterial
          /\ e1 = 0 \/ (e2 = 0 /\ out.search = NoWrite)
          /\ Run(e1, e2, out)
    \/ GetResults

Spec == Init /\ [][Next]_vars

----------------------------------------------------------------------------
(* get_results on its own: a work directory as prepare and the solvers  *)
(* leave it, with any search.s built from the lines above               *)

MaxLines == 2

SeqsUpTo(S, n) == UNION {[1..k -> S] : k \in 0..n}

SearchLines ==
    {LineNone, LineSpec, LineTwoEq, LineLater, LineNoEq, LineNoNumber,
     LineSigned, LineOtherEq}

SearchFiles == {Flatten(ls) : ls \in SeqsUpTo(SearchLines, MaxLines)}

FullRef == [f \in RefNames |-> RefContents(f)]

Folder37 == FolderName(3, 7)

\* the work directory after prepare(message) with x = [1.5, -2.25]
PreparedDir ==
    LET copied == CopyTree(EmptyDir, FullRef)
    IN [copied EXCEPT !.files["tleed5.i"] =
            WriteFitFile(copied.files["tleed5.i"], <<Float(48), Float(-72)>>).contents]

ResultFlags == {"False", "True", "'true'", "'false'"}

InitResults ==
    /\ info = NoInfo
    /\ ref = FullRef
    /\ initError = NoError
    /\ refChecks = 1
    /\ \E flag \in ResultFlags :
          solver = [built |-> TRUE, remove_work_dir |-> flag,
                    path_to_first_solver |-> ResolveSolver(<<>>, "satl1.exe"),
                    path_to_second_solver |-> ResolveSolver(<<>>, "satl2.exe"),
                    work_dir |-> Folder37]
    /\ \E search \in SearchFiles \cup {NoWrite}, marker \in BOOLEAN :
          fs = [n \in Folders |->
                  IF n = Folder37
                  THEN Written(PreparedDir, [search |-> search, marker |-> marker])
                  ELSE NoDir]
    /\ cwd = Proc
    /\ pathCreated = {}
    /\ last = Idle
    /\ IdleInject

NextResults == GetResults

SpecResults == InitResults /\ [][NextResults]_vars

----------------------------------------------------------------------------
(* _write_fit_file on its own: templates built from pieces of text *)

MaxSegs == 3
MaxParams == 2
MaxWrites == 2

\* 1.5, -2.25, 1000.5 and 0.09375 (a tie in the fourth decimal)
Values == {48, -72, 32016, 3}

Pieces ==
    {<<" ">>, OptChars, <<"0", "0">>} \cup {Token(i) : i \in 0..(MaxParams - 1)}

InitInject ==
    /\ info = NoInfo
    /\ ref = FullRef
    /\ initError = NoError
    /\ refChecks = 0
    /\ solver = NoSolver
    /\ fs = [n \in Folders |-> NoDir]
    /\ cwd = Proc
    /\ pathCreated = {}
    /\ last = Idle
    /\ segs \in SeqsUpTo(Pieces, MaxSegs)
    /\ variables \in {[i \in 1..Len(v) |-> Float(v[i])] :
                        v \in SeqsUpTo(Values, MaxParams)}
    /\ contents = Flatten(segs)
    /\ writes = 0

\* one call of _write_fit_file(variables) in the directory holding tleed5.i
WriteFit ==
    /\ writes < MaxWrites
    /\ contents' = WriteFitFile(contents, variables).contents
    /\ writes' = writes + 1
    /\ UNCHANGED <<segs, variables, lifeVars>>

NextInject == WriteFit

SpecInject == InitInject /\ [][NextInject]_vars

----------------------------------------------------------------------------
(* Properties of the injection *)

\* an optNNNN token starts at position i of s
IsTokenAt(s, i) ==
    /\ MatchAt(s, OptChars, i)
    /\ i + Len(OptChars) + TokenWidth - 1 <= Len(s)
    /\ \A k \in 0..(TokenWidth - 1) : IsDigit(s[i + Len(OptChars) + k])

TokenIndexAt(s, i) ==
    DigitsValue(SubSeq(s, i + Len(OptChars), i + Len(OptChars) + TokenWidth - 1))

\* the indices NNNN of the optNNNN tokens occurring in s
TokenIndices(s) == {TokenIndexAt(s, i) : i \in {j \in 1..Len(s) : IsTokenAt(s, j)}}

\* s holds the n tokens opt0000 .. opt(n-1) and no other token
HoldsTokens(s, n) == TokenIndices(s) = 0..(n - 1)

\* the text "opt" occurs in s only as the head of a token
OptOnlyInTokens(s) == \A i \in 1..Len(s) : MatchAt(s, OptChars, i) => IsTokenAt(s, i)

\* s with every token occurrence replaced, in one pass, by the rendering of
\* the parameter at its index, and all other text kept
RECURSIVE InjectedFrom(_, _, _)
InjectedFrom(s, xs, i) ==
    IF i > Len(s) THEN <<>>
    ELSE IF IsTokenAt(s, i) /\ TokenIndexAt(s, i) < Len(xs)
         THEN FormatF(xs[TokenIndexAt(s, i) + 1].k)
                  \o InjectedFrom(s, xs, i + Len(OptChars) + TokenWidth)
         ELSE <<s[i]>> \o InjectedFrom(s, xs, i + 1)

Injected(s, xs) == InjectedFrom(s, xs, 1)

\* C8 as stated: for a template holding the N tokens opt0000 .. opt(N-1)
\* and a vector of length N, the file after injection (once or twice) holds
\* no optNNNN token and is the template with every token replaced by the
\* "{:7.4f}" rendering of its parameter, other text unchanged.
C8_AsStated ==
    (writes >= 1 /\ HoldsTokens(Flatten(segs), Len(variables)))
        => /\ TokenIndices(contents) = {}
           /\ contents = Injected(Flatten(segs), variables)

\* C8 amended: the same, for templates in which the text "opt" occurs only
\* as the head of one of the N tokens; a second injection with the same
\* vector leaves the file as the first one left it.
C8_Injection ==
    (/\ writes >= 1
     /\ HoldsTokens(Flatten(segs), Len(variables))
     /\ OptOnlyInTokens(Flatten(segs)))
        => /\ TokenIndices(contents) = {}
           /\ ~Contains(contents, OptChars)
           /\ contents = Injected(Flatten(segs), variables)

\* two tokens around a blank, injected twice with [1.5, -2.25]
C8_Witness ==
    /\ writes = 2
    /\ segs = <<Token(0), <<" ">>, Token(1)>>
    /\ variables = <<Float(48), Float(-72)>>
    /\ contents = <<" ", "1", ".", "5", "0", "0", "0", " ",
                    "-", "2", ".", "2", "5", "0", "0">>

----------------------------------------------------------------------------
(* Properties of get_results *)

MarkerAbsent(d) == ~d.exists \/ d.files["iv 1"] = Absent
SearchPresent(d) == d.exists /\ d.files["search.s"] # Absent

\* C1 as stated: whenever "iv 1" is absent from the work directory,
\* get_results returns positive infinity, whatever search.s contains.
C1_AsStated ==
    [][(/\ last'.op = "get_results"
        /\ MarkerAbsent(fs[solver.work_dir])
        /\ SearchPresent(fs[solver.work_dir]))
          => (last'.status = "returned" /\ last'.value = Inf)]_vars

EnabledFlags == {"True", "'true'"}     \* the configuration asks for removal
DisabledFlags == {"False"}

\* C2 as stated: after get_results returns, the work directory does not
\* exist if the flag was enabled (boolean true included), and exists with
\* its files unchanged if it was disabled.
C2_AsStated ==
    [][(last'.op = "get_results" /\ last'.status = "returned")
          => /\ solver.remove_work_dir \in EnabledFlags
                  => ~fs'[solver.work_dir].exists
             /\ solver.remove_work_dir \in DisabledFlags
                  => fs'[solver.work_dir] = fs[solver.work_dir]]_vars

\* the text between the first "=" of a line and the next "=" (or the end)
AfterFirstEq(line) ==
    LET eqs == {i \in 1..Len(line) : line[i] = "="}
        e == CHOOSE i \in eqs : \A j \in eqs : i <= j
        later == {i \in eqs : i > e}
        stop == IF later = {} THEN Len(line) + 1
                ELSE CHOOSE i \in later : \A j \in later : i <= j
    IN SubSeq(line, e + 1, stop - 1)

HasNumber(line) ==
    /\ \E i \in 1..Len(line) : line[i] = "="
    /\ ParseFloat(AfterFirstEq(line)).ok

\* C10: with "iv 1" present and search.s holding a line with R-FACTOR, the
\* number after the first "=" of the first such line is returned whatever
\* later lines say; the directory is removed, when removal applies, in the
\* same call that returns the value read, and is left alone when reading
\* fails; with "iv 1" present and no R-FACTOR line the call raises
\* (UnboundLocalError) and returns nothing.
C10_FirstRFactor ==
    [][(/\ last'.op = "get_results"
        /\ ~MarkerAbsent(fs[solver.work_dir])
        /\ SearchPresent(fs[solver.work_dir]))
          => LET wd == solver.work_dir
                 lines == ReadLines(fs[wd].files["search.s"])
                 hits == {i \in 1..Len(lines) : Contains(lines[i], RFACTOR)}
                 h == CHOOSE i \in hits : \A j \in hits : i <= j
             IN /\ (hits # {} /\ HasNumber(lines[h]))
                    => /\ last'.status = "returned"
                       /\ last'.value = ParseFloat(AfterFirstEq(lines[h])).value
                       /\ fs'[wd].exists = ~RemoveApplies(solver.remove_work_dir)
                /\ (hits # {} /\ ~HasNumber(lines[h]))
                    => /\ last'.status = "raised"
                       /\ fs' = fs
                /\ hits = {}
                    => /\ last'.status = "raised"
                       /\ last'.error = "UnboundLocalError"
                       /\ last'.value = Unset]_vars

\* 0.5 was read from "R-FACTOR =0.50=2" and the directory then removed
C10_Witness ==
    /\ last.op = "get_results"
    /\ last.status = "returned"
    /\ last.value = [kind |-> "num", mant |-> 5, exp |-> 1]
    /\ solver.remove_work_dir = "'true'"
    /\ ~fs[solver.work_dir].exists

----------------------------------------------------------------------------
(* Properties of construction *)

LacksFile(r) == \E f \in RefNames : r[f] = Absent

KeysRecognized(i) ==
    /\ {"post", "config", "reference"} \subseteq i.sections
    /\ i.extra = "none"

\* C5 as stated, taken for configurations whose sections and keys are all
\* valid: with a reference directory lacking a required file, Solver(...)
\* raises an InputError naming a missing file and the directory whatever
\* the solver paths are, and the files are checked at construction only.
C5_AsStated ==
    [][/\ (info.pending /\ ~info'.pending /\ LacksFile(ref) /\ KeysRecognized(info))
            => /\ ~solver'.built
               /\ initError'.kind = "InputError"
               /\ initError'.subject = "file"
               /\ ref[initError'.name[1]] = Absent
               /\ initError'.dir = BaseDir
       /\ ~info.pending => refChecks' = refChecks]_vars

SolversFound(i) ==
    /\ ResolveSolver(i.first, "satl1.exe") \in Executables
    /\ ResolveSolver(i.second, "satl2.exe") \in Executables

\* C5 amended: with a reference directory lacking a required file,
\* Solver(...) always raises and yields no object; the exception is the
\* InputError naming the first missing file (in the order exp.d, rfac.d,
\* tleed4.i, tleed5.i) and the directory exactly when every section is
\* present, every key is recognized and both solvers are found, because
\* those checks come first: an unrecognized key raises RuntimeError and a
\* solver that is not found raises the InputError naming the solver.  The
\* files are checked at most once, at construction, never by prepare, run
\* or get_results.
C5_MissingFile ==
    [][/\ (info.pending /\ ~info'.pending /\ LacksFile(ref))
            => /\ ~solver'.built
               /\ initError' # NoError
               /\ (KeysRecognized(info) /\ SolversFound(info))
                    => /\ initError'.kind = "InputError"
                       /\ initError'.subject = "file"
                       /\ ref[initError'.name[1]] = Absent
                       /\ \A k \in 1..Len(RequiredFiles) :
                            RequiredFiles[k] = initError'.name[1]
                                => \A j \in 1..(k - 1) : ref[RequiredFiles[j]] # Absent
                       /\ initError'.dir = BaseDir
                       /\ refChecks' = 1
               /\ ~(KeysRecognized(info) /\ SolversFound(info))
                    => /\ initError'.subject # "file"
                       /\ refChecks' = 0
               /\ ("post" \in info.sections /\ info.extra # "none")
                    => initError'.kind = "RuntimeError"
               /\ (KeysRecognized(info) /\ ~SolversFound(info))
                    => (initError'.kind = "InputError" /\ initError'.subject = "solver")
       /\ ~info.pending => refChecks' = refChecks]_vars

\* rfac.d is reported while tleed5.i is missing as well
C5_Witness ==
    /\ last.op = "init"
    /\ initError.kind = "InputError"
    /\ initError.name = <<"rfac.d">>
    /\ initError.dir = BaseDir
    /\ ref["exp.d"] # Absent
    /\ ref["tleed5.i"] = Absent
    /\ refChecks = 1

\* C6 as stated: a solver that is not found, a required file that is
\* missing and an unrecognized key all end construction with an InputError
\* and no object.
C6_AsStated ==
    (last.op = "init" /\ initError.subject \in {"solver", "file", "keyword"})
        => (initError.kind = "InputError" /\ ~solver.built)

----------------------------------------------------------------------------
(* Properties of prepare and run *)

\* C3 as stated: prepare leaves the working directory as it found it on
\* every exit path, a failed injection included.
C3_AsStated == [][last'.op = "prepare" => cwd' = cwd]_vars

\* C4: run starts the first solver, then the second, and the second only
\* after the first ended with status zero; a non-zero status of either is
\* caught and run returns; when the first fails the second is not started.
C4_RunOrder ==
    last.op = "run"
        => /\ Len(last.started) <= 2
           /\ Len(last.started) >= 1
                => /\ last.started[1][1] = solver.path_to_first_solver
                   /\ last.status = "returned"
                   /\ (last.started[1][2] = 0 <=> Len(last.started) = 2)
           /\ Len(last.started) = 2
                => last.started[2][1] = solver.path_to_second_solver
           /\ last.status = "raised"
                => (last.started = <<>> /\ last.error # "CalledProcessError")

\* the first solver failed: run returned and the second was not started
C4_WitnessFirstFails ==
    /\ last.op = "run"
    /\ last.status = "returned"
    /\ Len(last.started) = 1
    /\ last.started[1][2] # 0

DirNumbers == {0, 3, 7, 10, 99999999, 100000000, 123456789, 1234567890}

\* different (step, set) pairs have different folder names
NameInjective ==
    \A s1 \in DirNumbers, t1 \in DirNumbers, s2 \in DirNumbers, t2 \in DirNumbers :
        <<s1, t1>> # <<s2, t2>> => FolderName(s1, t1) # FolderName(s2, t2)

\* C7 as stated: the folder name is injective in (step, set), values of
\* more than 8 digits included, so prepare for one pair never writes into
\* the work directory of another pair.
C7_AsStated ==
    [][/\ NameInjective
       /\ last'.op = "prepare"
            => \A n \in Folders : n # last'.folder => fs'[n] = fs[n]]_vars

\* C9 as stated: after prepare returns, the work directory holds exactly
\* the reference files and the injected tleed5.i, also when it existed
\* before: no search.s or "iv 1" of an earlier cycle is left.
C9_AsStated ==
    (last.op = "prepare" /\ last.status = "returned")
        => LET d == fs[last.folder]
           IN /\ d.exists
              /\ \A f \in RefNames \ {"tleed5.i"} : d.files[f] = ref[f]
              /\ d.files["tleed5.i"] \in
                    {WriteFitFile(ref["tleed5.i"], x).contents : x \in Xs}
              /\ d.files["search.s"] = Absent
              /\ d.files["iv 1"] = Absent

====
